---- MODULE Spec2Model ----
(***************************************************************************)
(* A model of the jamie-ai browser client: the AudioRecorder component     *)
(* (chunking / recording state machine), the transcription services and    *)
(* their factory, and the SilenceDetector utility.                         *)
(*                                                                         *)
(* The browser event loop is single threaded: every action below is one    *)
(* macrotask (a click, a timer callback, a dataavailable event, the        *)
(* settlement of a promise together with the continuation that awaits it). *)
(* Time is the value Date.now() returns; timers fire at their deadline.    *)
(***************************************************************************)
EXTENDS Integers, Sequences, FiniteSets, TLC

\* ------------------------------------------------------------------ bounds
MaxTime == 2000         \* the clock stops here, ms
MaxFrags == 2           \* non-empty fragments the host recorders emit in one run
MaxClicks == 3          \* clicks on the start/stop button in one run
MaxDirect == 1          \* transcribe calls made on a service directly
MaxSamples == 5         \* volume samples fed to the silence detector

\* ------------------------------------------------------- program constants
MinSegmentMs == 500             \* TranscriptionDisplay.tsx:137
MinBlobBytes == 100             \* TranscriptionDisplay.tsx:137
SettleDelay == 1000             \* TranscriptionDisplay.tsx:352
DefaultChunkInterval == 6000    \* TranscriptionDisplay.tsx:67
MockDelay == 500                \* transcriptionService.ts:83

\* the clock is looked at every settling delay and at every timer deadline
Quantum == SettleDelay

\* ----------------------------------------------------------- input domains
ChunkIntervals == {1000}                \* the chunkInterval prop of the runs
FragSizes == {0, 50, 100}               \* event.data.size of a fragment
Whitespace == {" ", "\t", "\n"}
Texts == {<<>>, <<" ">>, <<"a">>}       \* the text field of a 2xx response
ErrStatus == {500}                      \* non-2xx statuses
ErrBodies == {"quota"}                  \* bodies of non-2xx responses
Statuses == {199, 200, 299, 300, 500}   \* statuses answered to a direct call
ApiKeys == {"", "X"}                    \* credentials
MockFlags == {"true", "false"}          \* NEXT_PUBLIC_USE_MOCK_SERVICES
DirectSizes == {0, 100}                 \* payload sizes of segments passed directly
Volumes == {5, 10, 20}                  \* volume samples, in thousandths
Thresholds == {10}                      \* silenceThreshold (default 0.01)
MinLengths == {0, 500, 1000}            \* minSilenceLength, ms (default 1000)
SampleGaps == {250, 500}                \* ms between two volume samples
ScenarioTimes == {3000, 9000, 12500, 13000}     \* instants the scenario looks at
ScenarioStops == {13000}                \* when the scenario's user clicks stop

VARIABLES
    \* host
    now,                \* Date.now()
    streams,            \* streams[i]: "live" | "stopped" (MediaStream tracks)
    recorders,          \* recorders[i]: [state, queued] (MediaRecorder objects)
    intervals,          \* active setInterval timers: [id, due, pc]
    timeouts,           \* pending setTimeout callbacks of stopRecording: [id, due, pc]
    timerSeq,           \* timer handles handed out so far
    starts,             \* startRecording invocations awaiting getUserMedia: <<pc, ...>>
    \* configuration and props
    env,                \* the environment: process.env (key, mock) and what the
                        \* host's MediaRecorder does (recorder)
    chunkInterval,
    fragBudget,         \* non-empty fragments the hosts may emit in this run
    created,            \* the last service a factory returned, with the arguments
    \* SilenceDetector: the object, and the calls made on it
    detector, sdLog,
    \* AudioRecorder React state
    isRecording, isTranscribing, pendingChunks, error,
    \* AudioRecorder refs
    mediaRecorderRef, streamRef, chunksRef, chunkTimerRef,
    startTimeRef, lastChunkTimeRef, chunkCountRef,
    \* Home (page.tsx) state
    transcriptions, audioStream,
    \* transcribe calls, in the order they were made (NewCall)
    calls,
    \* history
    flushLog,           \* every run of processChunk and every final-flush attempt
    fragCount, clicks,
    finalAttempts,      \* stop timeouts fired since recording last began
    session,            \* where the logs stood at the last startRecording
    mounted             \* the AudioRecorder component is in the tree

hostVars == <<now, streams, recorders, intervals, timeouts, timerSeq, starts>>
propVars == <<env, chunkInterval, fragBudget, created, detector, sdLog>>
stateVars == <<isRecording, isTranscribing, pendingChunks, error>>
refVars == <<mediaRecorderRef, streamRef, chunksRef, chunkTimerRef,
             startTimeRef, lastChunkTimeRef, chunkCountRef>>
pageVars == <<transcriptions, audioStream>>
histVars == <<flushLog, fragCount, clicks, finalAttempts, session>>
vars == <<hostVars, propVars, stateVars, refVars, pageVars, calls, histVars, mounted>>

\* ------------------------------------------------------------------ helpers
Min(S) == CHOOSE x \in S : \A y \in S : x <= y
Max2(a, b) == IF a >= b THEN a ELSE b

RECURSIVE SumSizes(_)
SumSizes(s) == IF s = <<>> THEN 0 ELSE Head(s).size + SumSizes(Tail(s))

NoError == [kind |-> "none", status |-> 0, body |-> ""]

\* ------------------------------------------------- text (strings as tuples)
RECURSIVE TrimStart(_)
TrimStart(t) ==
    IF t # <<>> /\ Head(t) \in Whitespace THEN TrimStart(Tail(t)) ELSE t

RECURSIVE TrimEnd(_)
TrimEnd(t) ==
    IF t # <<>> /\ t[Len(t)] \in Whitespace
    THEN TrimEnd(SubSeq(t, 1, Len(t) - 1)) ELSE t

\* String.prototype.trim
Trim(t) == TrimEnd(TrimStart(t))

DigitChar(d) ==
    CASE d = 0 -> "0" [] d = 1 -> "1" [] d = 2 -> "2" [] d = 3 -> "3" [] d = 4 -> "4"
      [] d = 5 -> "5" [] d = 6 -> "6" [] d = 7 -> "7" [] d = 8 -> "8" [] OTHER -> "9"

\* the decimal digits of a template literal ${n}, n >= 0
RECURSIVE Decimal(_)
Decimal(n) ==
    IF n < 10 THEN <<DigitChar(n)>> ELSE Decimal(n \div 10) \o <<DigitChar(n % 10)>>

\* Math.round of ms / 1000 for ms >= 0
RoundSeconds(ms) == (ms + 500) \div 1000

\* ------------------------------------------------- audio segments and blobs
\* new Blob(chunks): the bytes of the fragments, concatenated
BlobSize(chunks) == SumSizes(chunks)

createAudioBlob(chunks) == [frags |-> chunks, size |-> BlobSize(chunks)]

AudioSegment(blob, startTime, endTime) ==
    [blob |-> blob, startTime |-> startTime, endTime |-> endTime]

\* ----------------------------------------------------- transcription services
MockTranscriptionService == [kind |-> "mock", apiKey |-> ""]
WhisperTranscriptionService(apiKey) == [kind |-> "whisper", apiKey |-> apiKey]

NoResult == [text |-> <<>>, startTime |-> 0, endTime |-> 0]

EmptyAudioError == [kind |-> "Empty audio blob", status |-> 0, body |-> ""]
FetchError == [kind |-> "Failed to fetch", status |-> 0, body |-> ""]
HttpError(status, body) ==
    [kind |-> "Transcription failed", status |-> status, body |-> body]

ResponseOk_From200(status) == status >= 200

\* response.ok
ResponseOk(status) == status >= 200 /\ status <= 299

\* WhisperTranscriptionService.transcribe up to the fetch: the payload check
WhisperRejectsEarly(seg) == seg.blob.size = 0

WhisperResult_Now(seg, text) ==
    [text |-> text, startTime |-> seg.startTime, endTime |-> now]

\* return { text: result.text, startTime: ..., endTime: ... }
WhisperResult(seg, text) ==
    [text |-> text, startTime |-> seg.startTime, endTime |-> seg.endTime]

\* WhisperTranscriptionService.transcribe from the response on
WhisperSettle(seg, resp) ==
    IF resp.kind = "network"
    THEN [ok |-> FALSE, result |-> NoResult, err |-> FetchError]
    ELSE IF ~ResponseOk(resp.status)
    THEN [ok |-> FALSE, result |-> NoResult, err |-> HttpError(resp.status, resp.body)]
    ELSE [ok |-> TRUE, result |-> WhisperResult(seg, resp.text), err |-> NoError]

MockText(seg) ==
    <<"mock", " ">> \o Decimal(RoundSeconds(seg.endTime - seg.startTime))
        \o <<" ", "s", " ", "at", " ">> \o Decimal(seg.startTime)

\* return { text: mockText, startTime: ..., endTime: ... }
MockResult(seg) ==
    [text |-> MockText(seg), startTime |-> seg.startTime, endTime |-> seg.endTime]

MockSettle_Rejects(seg) ==
    [ok |-> FALSE, result |-> NoResult, err |-> FetchError]

\* MockTranscriptionService.transcribe once its delay has run
MockSettle(seg) ==
    [ok |-> TRUE, result |-> MockResult(seg), err |-> NoError]

\* ------------------------------------------------------------------ factory
EnvVals(S) == {[set |-> FALSE, val |-> ""]} \cup {[set |-> TRUE, val |-> v] : v \in S}

\* process.env.NEXT_PUBLIC_OPENAI_API_KEY || ''
OPENAI_API_KEY == IF env.key.set /\ env.key.val # "" THEN env.key.val ELSE ""

\* process.env.NEXT_PUBLIC_USE_MOCK_SERVICES === 'true'
USE_MOCK_SERVICE == env.mock.set /\ env.mock.val = "true"

createTranscriptionService_KeyFirst(apiKey, useMock) ==
    IF apiKey # "" THEN WhisperTranscriptionService(apiKey)
    ELSE MockTranscriptionService

createTranscriptionService(apiKey, useMock) ==
    IF useMock THEN MockTranscriptionService
    ELSE IF apiKey = "" THEN MockTranscriptionService
    ELSE WhisperTranscriptionService(apiKey)

getTranscriptionService ==
    IF USE_MOCK_SERVICE THEN MockTranscriptionService
    ELSE IF OPENAI_API_KEY = "" THEN MockTranscriptionService
    ELSE WhisperTranscriptionService(OPENAI_API_KEY)

\* the transcriptionService prop of AudioRecorder (its default)
transcriptionService == getTranscriptionService

\* ------------------------------------------------------------ host responses
HttpResponses ==
    {[kind |-> "http", status |-> 200, text |-> t, body |-> ""] : t \in Texts}
    \cup {[kind |-> "http", status |-> st, text |-> <<>>, body |-> b] :
            st \in ErrStatus, b \in ErrBodies}

NetworkFailure == [kind |-> "network", status |-> 0, text |-> <<>>, body |-> ""]

MicError(msg) == [kind |-> "Could not access microphone", status |-> 0, body |-> msg]

\* what the MediaRecorder constructors and start(500) of a host do
Hosts == {"ok", "ctorThrows", "startThrows"}

RecorderEnvs ==
    {[key |-> [set |-> TRUE, val |-> "X"], mock |-> m, recorder |-> h] :
        m \in {[set |-> FALSE, val |-> ""], [set |-> TRUE, val |-> "true"]},
        h \in Hosts}

\* ------------------------------------------------------------- AudioRecorder
\* const chunkStartTime = lastChunkTimeRef.current || startTimeRef.current
ChunkStartTime_SessionStart == startTimeRef

ChunkStartTime_Now == now

ChunkStartTime == IF lastChunkTimeRef # 0 THEN lastChunkTimeRef ELSE startTimeRef

SegmentTooSmall_And(duration, size) == duration < MinSegmentMs /\ size < MinBlobBytes

\* if (currentTime - chunkStartTime < 500 || audioBlob.size < 100)
SegmentTooSmall(duration, size) == duration < MinSegmentMs \/ size < MinBlobBytes

\* the queued updaters of a skipped flush: prev + 1, prev - 1, Math.max(0, prev - 1)
PendingAfterSkip(prev) == Max2(0, ((prev + 1) - 1) - 1)

\* finally: setPendingChunks(prev => Math.max(0, prev - 1))
PendingAfterSettle(prev) == Max2(0, prev - 1)

\* if (pendingChunks <= 1) setIsTranscribing(false), pendingChunks the closure's
TranscribingAfter(cur, pc) == IF pc <= 1 THEN FALSE ELSE cur

\* `${result.text} [Chunk #${chunkCountRef.current}]`
ChunkTag(n) == <<" ", "[Chunk #">> \o Decimal(n) \o <<"]">>

HasText_NoTrim(text) == text # <<>>

\* if (result.text.trim())
HasText(text) == Trim(text) # <<>>

ErrorAfterSettle_Swallowed(outcome, cur) == cur

\* catch: setError(error instanceof Error ? error.message : ...)
ErrorAfterSettle(outcome, cur) == IF outcome.ok THEN cur ELSE outcome.err

\* the object handed to onTranscriptionUpdate
Annotated(result, n) == [result EXCEPT !.text = @ \o ChunkTag(n)]

NoResponse == [kind |-> "none", status |-> 0, text |-> <<>>, body |-> ""]

\* service.transcribe(seg), up to its first await: the call as it is in flight,
\* or as it has failed already. pc and fid are the caller's: the pendingChunks
\* its closure holds and the flush the segment comes from (0: no flush).
Transcribe(svc, seg, pc, fid) ==
    LET call == [seg |-> seg, flush |-> fid, pc |-> pc, svc |-> svc, due |-> 0,
                 called |-> now,
                 st |-> "pending", http |-> FALSE, resp |-> NoResponse,
                 result |-> NoResult, err |-> NoError,
                 delivered |-> 0, handed |-> NoResult, at |-> 0, rec |-> FALSE]
    IN  IF svc.kind = "mock" THEN [call EXCEPT !.due = now + MockDelay]
        ELSE IF WhisperRejectsEarly(seg)
        THEN [call EXCEPT !.st = "rejected", !.err = EmptyAudioError, !.at = now]
        ELSE [call EXCEPT !.http = TRUE]

chunkVars == <<chunksRef, lastChunkTimeRef, chunkCountRef, error, isTranscribing,
               pendingChunks, calls>>

\* processChunk, from its entry to the await of transcribe (or its return)
ProcessChunk(pc, kind, stopAt) ==
    IF chunksRef = <<>>
    THEN UNCHANGED <<chunkVars, flushLog>>
    ELSE LET currentTime == now
             n == chunkCountRef + 1
             chunksToProcess == chunksRef
             chunkStartTime == ChunkStartTime
             audioBlob == createAudioBlob(chunksToProcess)
             small == SegmentTooSmall(currentTime - chunkStartTime, audioBlob.size)
             audioSegment == AudioSegment(audioBlob, chunkStartTime, currentTime)
             fid == Len(flushLog) + 1
             call == Transcribe(transcriptionService, audioSegment, pc, fid)
             early == ~small /\ call.st = "rejected"
         IN  /\ chunkCountRef' = n
             /\ chunksRef' = <<>>
             /\ lastChunkTimeRef' = currentTime
             /\ error' = IF early THEN call.err ELSE NoError
             /\ pendingChunks' =
                    IF small THEN PendingAfterSkip(pendingChunks)
                    ELSE IF early THEN PendingAfterSettle(pendingChunks + 1)
                    ELSE pendingChunks + 1
             /\ isTranscribing' =
                    IF small \/ early THEN TranscribingAfter(TRUE, pc) ELSE TRUE
             /\ calls' =
                    IF small THEN calls
                    ELSE Append(calls, [call EXCEPT !.rec = early /\ isRecording])
             /\ flushLog' = Append(flushLog,
                    [kind |-> kind, time |-> currentTime, start |-> chunkStartTime,
                     size |-> audioBlob.size, frags |-> chunksToProcess, n |-> n,
                     outcome |-> IF small THEN "skipped" ELSE "submitted",
                     call |-> IF small THEN 0 ELSE Len(calls) + 1,
                     stopAt |-> stopAt])

\* the promise transcribe returned settles
Settled(c, resp, outcome) ==
    [c EXCEPT !.st = IF outcome.ok THEN "resolved" ELSE "rejected",
              !.resp = resp,
              !.result = outcome.result,
              !.err = outcome.err,
              !.at = now]

handleTranscriptionUpdate_Prepend(prev, result) == <<result>> \o prev

\* Home.handleTranscriptionUpdate: setTranscriptions(prev => [...prev, result])
handleTranscriptionUpdate(prev, result) == Append(prev, result)

ProcessChunkResume_OnlyWhileRecording(i, resp, outcome) ==
    LET c == calls[i]
        deliver == isRecording /\ outcome.ok /\ HasText(outcome.result.text)
        handed == Annotated(outcome.result, chunkCountRef)
    IN  /\ transcriptions' =
               IF deliver THEN handleTranscriptionUpdate(transcriptions, handed)
               ELSE transcriptions
        /\ error' = IF isRecording THEN ErrorAfterSettle(outcome, error) ELSE error
        /\ pendingChunks' = PendingAfterSettle(pendingChunks)
        /\ isTranscribing' = TranscribingAfter(isTranscribing, c.pc)
        /\ calls' = [calls EXCEPT ![i] =
               [Settled(c, resp, outcome) EXCEPT
                         !.delivered = IF deliver THEN @ + 1 ELSE @,
                         !.handed = IF deliver THEN handed ELSE @,
                         !.rec = isRecording]]

\* processChunk after the await: the result, the catch, the finally
ProcessChunkResume(i, resp, outcome) ==
    LET c == calls[i]
        deliver == outcome.ok /\ HasText(outcome.result.text)
        handed == Annotated(outcome.result, chunkCountRef)
    IN  /\ transcriptions' =
               IF deliver THEN handleTranscriptionUpdate(transcriptions, handed)
               ELSE transcriptions
        /\ error' = ErrorAfterSettle(outcome, error)
        /\ pendingChunks' = PendingAfterSettle(pendingChunks)
        /\ isTranscribing' = TranscribingAfter(isTranscribing, c.pc)
        /\ calls' = [calls EXCEPT ![i] =
               [Settled(c, resp, outcome) EXCEPT
                         !.delivered = IF deliver THEN @ + 1 ELSE @,
                         !.handed = IF deliver THEN handed ELSE @,
                         !.rec = isRecording]]

\* the button, onClick = startRecording, up to the await of getUserMedia
ClickStart ==
    /\ mounted
    /\ ~isRecording
    /\ ~(isTranscribing /\ ~isRecording)
    /\ clicks < MaxClicks
    /\ clicks' = clicks + 1
    /\ error' = NoError
    /\ chunksRef' = <<>>
    /\ startTimeRef' = now
    /\ lastChunkTimeRef' = now
    /\ chunkCountRef' = 0
    /\ starts' = Append(starts, pendingChunks)
    /\ session' = [flushes |-> Len(flushLog), frags |-> fragCount, since |-> now]
    /\ UNCHANGED <<now, streams, recorders, intervals, timeouts, timerSeq, propVars, mounted,
                   isRecording, isTranscribing, pendingChunks, mediaRecorderRef,
                   streamRef, chunkTimerRef, pageVars, calls, flushLog, fragCount, finalAttempts>>

RemoveAt(s, i) == SubSeq(s, 1, i - 1) \o SubSeq(s, i + 1, Len(s))

\* startRecording after getUserMedia resolved; made: what the MediaRecorder
\* constructors and start(500) did ("ok", "ctorThrows", "startThrows")
GetUserMediaResolve(i, made) ==
    /\ i \in 1..Len(starts)
    /\ starts' = RemoveAt(starts, i)
    /\ streams' = Append(streams, "live")
    /\ streamRef' = Len(streams) + 1
    /\ audioStream' = Len(streams) + 1
    /\ recorders' =
           IF made = "ctorThrows" THEN recorders
           ELSE Append(recorders,
                       [state |-> IF made = "ok" THEN "recording" ELSE "inactive",
                        queued |-> 0])
    /\ mediaRecorderRef' =
           IF made = "ctorThrows" THEN mediaRecorderRef ELSE Len(recorders) + 1
    /\ IF made = "ok"
       THEN /\ timerSeq' = timerSeq + 1
            /\ intervals' = intervals \cup
                   {[id |-> timerSeq + 1, due |-> now + chunkInterval, pc |-> starts[i]]}
            /\ chunkTimerRef' = timerSeq + 1
            /\ isRecording' = TRUE
            /\ finalAttempts' = 0
            /\ UNCHANGED error
       ELSE /\ error' = MicError(made)
            /\ UNCHANGED <<timerSeq, intervals, chunkTimerRef, isRecording,
                           finalAttempts>>
    /\ UNCHANGED <<now, timeouts, propVars, mounted, isTranscribing, pendingChunks, chunksRef,
                   startTimeRef, lastChunkTimeRef, chunkCountRef, transcriptions,
                   calls, flushLog, fragCount, clicks, session>>

GetUserMediaReject_SetsRecording(i) ==
    /\ i \in 1..Len(starts)
    /\ starts' = RemoveAt(starts, i)
    /\ error' = MicError("denied")
    /\ isRecording' = TRUE
    /\ UNCHANGED <<now, streams, recorders, intervals, timeouts, timerSeq, propVars, mounted,
                   isTranscribing, pendingChunks, refVars, pageVars, calls, histVars>>

\* startRecording after getUserMedia rejected: the catch
GetUserMediaReject(i) ==
    /\ i \in 1..Len(starts)
    /\ starts' = RemoveAt(starts, i)
    /\ error' = MicError("denied")
    /\ UNCHANGED <<now, streams, recorders, intervals, timeouts, timerSeq, propVars, mounted,
                   isRecording, isTranscribing, pendingChunks, refVars, pageVars,
                   calls, histVars>>

FragmentArrives_Replaces(r, size, queued) ==
    /\ r \in 1..Len(recorders)
    /\ size > 0 => fragCount < fragBudget
    /\ IF queued THEN recorders[r].queued > 0 ELSE recorders[r].state = "recording"
    /\ recorders' = IF queued THEN [recorders EXCEPT ![r].queued = @ - 1] ELSE recorders
    /\ fragCount' = IF size > 0 THEN fragCount + 1 ELSE fragCount
    /\ chunksRef' = IF size > 0
                    THEN <<[id |-> fragCount + 1, size |-> size]>>
                    ELSE chunksRef
    /\ UNCHANGED <<now, streams, intervals, timeouts, timerSeq, starts, propVars, mounted,
                   stateVars, mediaRecorderRef, streamRef, chunkTimerRef, startTimeRef,
                   lastChunkTimeRef, chunkCountRef, pageVars, calls, flushLog,
                   clicks, finalAttempts, session>>

\* ondataavailable; queued: the event answers requestData() or stop().
\* Empty events are not counted against MaxFrags.
FragmentArrives(r, size, queued) ==
    /\ r \in 1..Len(recorders)
    /\ size > 0 => fragCount < fragBudget
    /\ IF queued THEN recorders[r].queued > 0 ELSE recorders[r].state = "recording"
    /\ recorders' = IF queued THEN [recorders EXCEPT ![r].queued = @ - 1] ELSE recorders
    /\ fragCount' = IF size > 0 THEN fragCount + 1 ELSE fragCount
    /\ chunksRef' = IF size > 0
                    THEN Append(chunksRef, [id |-> fragCount + 1, size |-> size])
                    ELSE chunksRef
    /\ UNCHANGED <<now, streams, intervals, timeouts, timerSeq, starts, propVars, mounted,
                   stateVars, mediaRecorderRef, streamRef, chunkTimerRef, startTimeRef,
                   lastChunkTimeRef, chunkCountRef, pageVars, calls, flushLog,
                   clicks, finalAttempts, session>>

TimerTick_Backpressure(t) ==
    /\ t \in intervals
    /\ t.due <= now
    /\ intervals' = (intervals \ {t}) \cup {[t EXCEPT !.due = @ + chunkInterval]}
    /\ IF Len(chunksRef) > 0 /\ pendingChunks = 0
       THEN ProcessChunk(t.pc, "tick", 0)
       ELSE UNCHANGED <<chunkVars, flushLog>>
    /\ UNCHANGED <<now, streams, recorders, timeouts, timerSeq, starts, propVars, mounted,
                   isRecording, mediaRecorderRef, streamRef, chunkTimerRef,
                   startTimeRef, pageVars, fragCount, clicks,
                   finalAttempts, session>>

\* the setInterval callback of startRecording
TimerTick(t) ==
    /\ t \in intervals
    /\ t.due <= now
    /\ intervals' = (intervals \ {t}) \cup {[t EXCEPT !.due = @ + chunkInterval]}
    /\ IF Len(chunksRef) > 0
       THEN ProcessChunk(t.pc, "tick", 0)
       ELSE UNCHANGED <<chunkVars, flushLog>>
    /\ UNCHANGED <<now, streams, recorders, timeouts, timerSeq, starts, propVars, mounted,
                   isRecording, mediaRecorderRef, streamRef, chunkTimerRef,
                   startTimeRef, pageVars, fragCount, clicks,
                   finalAttempts, session>>

\* stopRecording, up to the setTimeout
stopRecording ==
    /\ intervals' = IF chunkTimerRef # 0
                    THEN {t \in intervals : t.id # chunkTimerRef} ELSE intervals
    /\ chunkTimerRef' = 0
    /\ recorders' =
           IF mediaRecorderRef # 0 /\ recorders[mediaRecorderRef].state # "inactive"
           THEN [recorders EXCEPT ![mediaRecorderRef] =
                    [state |-> "inactive", queued |-> @.queued + 2]]
           ELSE recorders
    /\ streams' = IF streamRef # 0 THEN [streams EXCEPT ![streamRef] = "stopped"]
                  ELSE streams
    /\ streamRef' = 0
    /\ audioStream' = IF streamRef # 0 THEN 0 ELSE audioStream
    /\ timerSeq' = timerSeq + 1
    /\ timeouts' = timeouts \cup
           {[id |-> timerSeq + 1, due |-> now + SettleDelay, pc |-> pendingChunks,
             at |-> now]}
    /\ UNCHANGED <<now, starts, propVars, stateVars, mediaRecorderRef, chunksRef,
                   startTimeRef, lastChunkTimeRef, chunkCountRef, transcriptions,
                   calls, flushLog, fragCount, finalAttempts, session>>

\* the button, onClick = stopRecording
ClickStop ==
    /\ mounted
    /\ isRecording
    /\ clicks < MaxClicks
    /\ clicks' = clicks + 1
    /\ stopRecording
    /\ UNCHANGED mounted

\* the isRecording that the cleanup of useEffect(..., []) reads: the effect ran
\* once, after the first render, so its cleanup closes over the state of that
\* render, useState(false)
UnmountSeesRecording == FALSE

\* React removes the component: the cleanup of the mount effect runs,
\* if (isRecording) stopRecording()
Unmount ==
    /\ mounted
    /\ mounted' = FALSE
    /\ IF UnmountSeesRecording
       THEN stopRecording /\ UNCHANGED clicks
       ELSE UNCHANGED <<hostVars, propVars, stateVars, refVars, pageVars, calls,
                        histVars>>

\* the setTimeout callback of stopRecording
StopTimeout(t) ==
    /\ t \in timeouts
    /\ t.due <= now
    /\ timeouts' = timeouts \ {t}
    /\ IF Len(chunksRef) > 0
       THEN ProcessChunk(t.pc, "final", t.at)
       ELSE /\ UNCHANGED chunkVars
            /\ flushLog' = Append(flushLog,
                   [kind |-> "final", time |-> now, start |-> ChunkStartTime,
                    size |-> 0, frags |-> <<>>, n |-> chunkCountRef,
                    outcome |-> "empty", call |-> 0, stopAt |-> t.at])
    /\ isRecording' = FALSE
    /\ finalAttempts' = finalAttempts + 1
    /\ UNCHANGED <<now, streams, recorders, intervals, timerSeq, starts, propVars, mounted,
                   mediaRecorderRef, streamRef, chunkTimerRef, startTimeRef, pageVars,
                   fragCount, clicks, session>>

settleFrame == <<hostVars, propVars, mounted, isRecording, refVars, audioStream, histVars>>

\* the remote service answers (or the network fails) and processChunk resumes
WhisperResponds(i, resp) ==
    /\ i \in 1..Len(calls)
    /\ calls[i].st = "pending"
    /\ calls[i].svc.kind = "whisper"
    /\ calls[i].http
    /\ calls[i].flush > 0
    /\ ProcessChunkResume(i, resp, WhisperSettle(calls[i].seg, resp))
    /\ UNCHANGED settleFrame

\* the mock's setTimeout(resolve, 500) fires and processChunk resumes
MockResponds(i) ==
    /\ i \in 1..Len(calls)
    /\ calls[i].st = "pending"
    /\ calls[i].svc.kind = "mock"
    /\ calls[i].due <= now
    /\ calls[i].flush > 0
    /\ ProcessChunkResume(i, NoResponse, MockSettle(calls[i].seg))
    /\ UNCHANGED settleFrame

\* deadlines of the timers that are set
Deadlines ==
    {t.due : t \in intervals} \cup {t.due : t \in timeouts}
    \cup {calls[i].due : i \in {j \in 1..Len(calls) :
                                   calls[j].st = "pending" /\ calls[j].svc.kind = "mock"}}

\* Time passes, up to the next deadline. Tasks that are already queued run
\* first: a callback that is due, the dataavailable events that requestData()
\* and stop() queued, and the settlement of getUserMedia.
Advance ==
    /\ \A d \in Deadlines : d > now
    /\ starts = <<>>
    /\ \A r \in 1..Len(recorders) : recorders[r].queued = 0
    /\ now' = Min({now + Quantum} \cup Deadlines)
    /\ now' <= MaxTime
    /\ UNCHANGED <<streams, recorders, intervals, timeouts, timerSeq, starts, propVars, mounted,
                   stateVars, refVars, pageVars, calls, histVars>>

InitRest ==
    /\ now = 0
    /\ streams = <<>>
    /\ recorders = <<>>
    /\ intervals = {}
    /\ timeouts = {}
    /\ timerSeq = 0
    /\ starts = <<>>
    /\ isRecording = FALSE
    /\ isTranscribing = FALSE
    /\ pendingChunks = 0
    /\ error = NoError
    /\ mediaRecorderRef = 0
    /\ streamRef = 0
    /\ chunksRef = <<>>
    /\ chunkTimerRef = 0
    /\ startTimeRef = 0
    /\ lastChunkTimeRef = 0
    /\ chunkCountRef = 0
    /\ transcriptions = <<>>
    /\ audioStream = 0
    /\ calls = <<>>
    /\ flushLog = <<>>
    /\ fragCount = 0
    /\ clicks = 0
    /\ finalAttempts = 0
    /\ session = [flushes |-> 0, frags |-> 0, since |-> 0]
    /\ mounted = TRUE

NotCreated == [how |-> "none", apiKey |-> "", useMock |-> FALSE,
            service |-> MockTranscriptionService]
NoDetector == [silenceThreshold |-> 0, minSilenceLength |-> 0,
               isSilent |-> FALSE, silenceStartTime |-> 0]

Init ==
    /\ InitRest
    /\ env \in RecorderEnvs
    /\ chunkInterval \in ChunkIntervals
    /\ fragBudget = MaxFrags
    /\ created = NotCreated
    /\ detector = NoDetector
    /\ sdLog = <<>>

\* ----------------------------------- the services and the factory, directly
recorderVars == <<streams, recorders, intervals, timeouts, timerSeq, starts,
                  stateVars, refVars, pageVars, histVars, mounted>>

ServiceEnvs == [key : EnvVals(ApiKeys), mock : EnvVals(MockFlags), recorder : {"ok"}]

DirectSegments ==
    {AudioSegment([frags |-> <<>>, size |-> sz], st, st + 1500) :
        sz \in DirectSizes, st \in {0, 1000}}

DirectResponses ==
    {[kind |-> "http", status |-> st, text |-> <<"a">>, body |-> "quota"] :
        st \in Statuses}
    \cup {NetworkFailure}

\* a caller asks the factory of transcriptionServiceFactory.ts for a service
CallGetTranscriptionService ==
    /\ created' = [how |-> "get", apiKey |-> OPENAI_API_KEY,
                   useMock |-> USE_MOCK_SERVICE, service |-> getTranscriptionService]
    /\ UNCHANGED <<now, recorderVars, env, chunkInterval, fragBudget, detector,
                   sdLog, calls>>

\* createTranscriptionService(apiKey, useMock = false); given: useMock is passed
CallCreateTranscriptionService(apiKey, given, useMock) ==
    LET flag == IF given THEN useMock ELSE FALSE
    IN  /\ created' = [how |-> "create", apiKey |-> apiKey, useMock |-> flag,
                       service |-> createTranscriptionService(apiKey, flag)]
        /\ UNCHANGED <<now, recorderVars, env, chunkInterval, fragBudget, detector,
                       sdLog, calls>>

\* a caller invokes transcribe on the service the factory returned
DirectTranscribe(seg) ==
    /\ created.how # "none"
    /\ Len(calls) < MaxDirect
    /\ calls' = Append(calls, Transcribe(created.service, seg, 0, 0))
    /\ UNCHANGED <<now, recorderVars, propVars>>

\* the remote service answers a direct call, or the network fails
DirectWhisperResponds(i, resp) ==
    /\ i \in 1..Len(calls)
    /\ calls[i].st = "pending"
    /\ calls[i].svc.kind = "whisper"
    /\ calls[i].http
    /\ calls[i].flush = 0
    /\ calls' = [calls EXCEPT ![i] =
           Settled(@, resp, WhisperSettle(calls[i].seg, resp))]
    /\ UNCHANGED <<now, recorderVars, propVars>>

\* the mock's delay of a direct call runs out
DirectMockResponds(i) ==
    /\ i \in 1..Len(calls)
    /\ calls[i].st = "pending"
    /\ calls[i].svc.kind = "mock"
    /\ calls[i].due <= now
    /\ calls[i].flush = 0
    /\ calls' = [calls EXCEPT ![i] = Settled(@, NoResponse, MockSettle(calls[i].seg))]
    /\ UNCHANGED <<now, recorderVars, propVars>>

InitService ==
    /\ InitRest
    /\ env \in ServiceEnvs
    /\ chunkInterval = DefaultChunkInterval
    /\ fragBudget = 0
    /\ created = NotCreated
    /\ detector = NoDetector
    /\ sdLog = <<>>

NextService ==
    \/ CallGetTranscriptionService
    \/ \E k \in ApiKeys : \E given, useMock \in BOOLEAN :
           CallCreateTranscriptionService(k, given, useMock)
    \/ \E seg \in DirectSegments : DirectTranscribe(seg)
    \/ \E i \in 1..Len(calls) : \E resp \in DirectResponses :
           DirectWhisperResponds(i, resp)
    \/ \E i \in 1..Len(calls) : DirectMockResponds(i)
    \/ Advance

SpecService == InitService /\ [][NextService]_vars

\* the same, with the event loop running: time passes and a timer that is due
\* fires
SpecServiceLive ==
    /\ InitService
    /\ [][NextService]_vars
    /\ WF_vars(Advance)
    /\ WF_vars(\E i \in 1..Len(calls) : DirectMockResponds(i))

\* ------------------------------------------------- one session, 6000 ms chunks
\* the user starts recording at t = 0
ScenarioStart ==
    /\ now = 0
    /\ clicks = 0
    /\ ClickStart

\* the microphone is granted and the host records
ScenarioMicrophone == GetUserMediaResolve(1, "ok")

ScenarioFragment ==
    \E size \in FragSizes : \E queued \in BOOLEAN :
        FragmentArrives(1, size, queued)

\* the user stops recording, once
ScenarioStop ==
    /\ now \in ScenarioStops
    /\ clicks = 1
    /\ ClickStop

\* time passes to the next deadline or the next instant of the scenario
ScenarioAdvance ==
    LET next == Deadlines \cup {t \in ScenarioTimes : t > now}
    IN  /\ clicks >= 1
        /\ now \in ScenarioStops => clicks >= 2
        /\ \A d \in Deadlines : d > now
        /\ starts = <<>>
        /\ \A r \in 1..Len(recorders) : recorders[r].queued = 0
        /\ next # {}
        /\ now' = Min(next)
        /\ UNCHANGED <<streams, recorders, intervals, timeouts, timerSeq, starts,
                       propVars, mounted, stateVars, refVars, pageVars, calls, histVars>>

InitScenario ==
    /\ InitRest
    /\ env \in {e \in RecorderEnvs : e.recorder = "ok"}
    /\ chunkInterval = DefaultChunkInterval
    /\ fragBudget = MaxFrags + 1
    /\ created = NotCreated
    /\ detector = NoDetector
    /\ sdLog = <<>>

NextScenario ==
    \/ ScenarioStart
    \/ ScenarioMicrophone
    \/ ScenarioFragment
    \/ \E t \in intervals : TimerTick(t)
    \/ ScenarioStop
    \/ \E t \in timeouts : StopTimeout(t)
    \/ \E i \in 1..Len(calls) : \E resp \in HttpResponses : WhisperResponds(i, resp)
    \/ \E i \in 1..Len(calls) : MockResponds(i)
    \/ ScenarioAdvance

SpecScenario == InitScenario /\ [][NextScenario]_vars

\* ---------------------------------------------------------- SilenceDetector
\* new SilenceDetector(silenceThreshold, minSilenceLength)
NewSilenceDetector(silenceThreshold, minSilenceLength) ==
    [silenceThreshold |-> silenceThreshold, minSilenceLength |-> minSilenceLength,
     isSilent |-> FALSE, silenceStartTime |-> 0]

detectSilence_Strict(d, volume, currentTime) ==
    LET isSilentNow == volume < d.silenceThreshold
    IN  IF ~d.isSilent /\ isSilentNow
        THEN [obj |-> [d EXCEPT !.isSilent = TRUE, !.silenceStartTime = currentTime],
              ret |-> FALSE]
        ELSE IF d.isSilent /\ ~isSilentNow
        THEN [obj |-> [d EXCEPT !.isSilent = FALSE], ret |-> FALSE]
        ELSE IF d.isSilent /\ currentTime - d.silenceStartTime > d.minSilenceLength
        THEN [obj |-> d, ret |-> TRUE]
        ELSE [obj |-> d, ret |-> FALSE]

\* detectSilence(volume, currentTime): the object afterwards and the value returned
detectSilence(d, volume, currentTime) ==
    LET isSilentNow == volume < d.silenceThreshold
    IN  IF ~d.isSilent /\ isSilentNow
        THEN [obj |-> [d EXCEPT !.isSilent = TRUE, !.silenceStartTime = currentTime],
              ret |-> FALSE]
        ELSE IF d.isSilent /\ ~isSilentNow
        THEN [obj |-> [d EXCEPT !.isSilent = FALSE], ret |-> FALSE]
        ELSE IF d.isSilent /\ currentTime - d.silenceStartTime >= d.minSilenceLength
        THEN [obj |-> d, ret |-> TRUE]
        ELSE [obj |-> d, ret |-> FALSE]

reset_KeepsSilent(d) == [d EXCEPT !.silenceStartTime = 0]

\* reset()
reset(d) == [d EXCEPT !.isSilent = FALSE, !.silenceStartTime = 0]

LastSampleTime == IF sdLog = <<>> THEN 0 ELSE sdLog[Len(sdLog)].t

\* a caller samples the volume and asks the detector
Sample(volume, gap) ==
    LET t == LastSampleTime + gap
        r == detectSilence(detector, volume, t)
    IN  /\ Len(sdLog) < MaxSamples
        /\ detector' = r.obj
        /\ sdLog' = Append(sdLog, [op |-> "sample", volume |-> volume, t |-> t,
                                    ret |-> r.ret])
        /\ UNCHANGED <<now, recorderVars, env, chunkInterval, fragBudget, created,
                       calls>>

\* a caller resets the detector
Reset ==
    /\ Len(sdLog) < MaxSamples
    /\ sdLog # <<>>
    /\ sdLog[Len(sdLog)].op = "sample"
    /\ detector' = reset(detector)
    /\ sdLog' = Append(sdLog, [op |-> "reset", volume |-> 0, t |-> LastSampleTime,
                                ret |-> FALSE])
    /\ UNCHANGED <<now, recorderVars, env, chunkInterval, fragBudget, created,
                   calls>>

InitDetector ==
    /\ InitRest
    /\ env \in {e \in RecorderEnvs : e.recorder = "ok"}
    /\ chunkInterval = DefaultChunkInterval
    /\ fragBudget = 0
    /\ created = NotCreated
    /\ \E th \in Thresholds : \E len \in MinLengths :
           detector = NewSilenceDetector(th, len)
    /\ sdLog = <<>>

NextDetector ==
    \/ \E v \in Volumes : \E gap \in SampleGaps : Sample(v, gap)
    \/ Reset

SpecDetector == InitDetector /\ [][NextDetector]_vars

Next ==
    \/ ClickStart
    \/ \E i \in 1..Len(starts) : GetUserMediaResolve(i, env.recorder)
    \/ \E i \in 1..Len(starts) : GetUserMediaReject(i)
    \/ \E r \in 1..Len(recorders) : \E size \in FragSizes : \E q \in BOOLEAN :
           FragmentArrives(r, size, q)
    \/ \E t \in intervals : TimerTick(t)
    \/ ClickStop
    \/ \E t \in timeouts : StopTimeout(t)
    \/ \E i \in 1..Len(calls) : \E resp \in HttpResponses : WhisperResponds(i, resp)
    \/ \E i \in 1..Len(calls) : MockResponds(i)
    \/ Advance

Spec == Init /\ [][Next]_vars

\* the recorder in a tree that may remove it
NextUnmount ==
    \/ Next
    \/ Unmount

SpecUnmount == Init /\ [][NextUnmount]_vars

\* what the event loop does by itself: callbacks that are due, queued events,
\* the settlement of getUserMedia, the passing of time
EventLoop ==
    \/ \E i \in 1..Len(starts) : GetUserMediaResolve(i, env.recorder)
    \/ \E r \in 1..Len(recorders) : \E size \in FragSizes :
           FragmentArrives(r, size, TRUE)
    \/ \E t \in intervals : TimerTick(t)
    \/ \E t \in timeouts : StopTimeout(t)
    \/ \E i \in 1..Len(calls) : MockResponds(i)
    \/ Advance

\* the recorder with the event loop running
SpecLive == Init /\ [][Next]_vars /\ WF_vars(EventLoop)

\* ================================================================== claims
Flushes == {f \in 1..Len(flushLog) : flushLog[f].outcome # "empty"}
CallsOf(f) == {c \in 1..Len(calls) : calls[c].flush = f}

\* C1: a flush whose segment is shorter than 500 ms (flush time minus segment
\* start) or whose payload is smaller than 100 bytes never reaches
\* transcriptionService.transcribe, whether a timer tick or stop triggered it.
C1_TinySegmentNeverTranscribed ==
    \A f \in Flushes :
        (flushLog[f].time - flushLog[f].start < 500 \/ flushLog[f].size < 100)
            => CallsOf(f) = {}

\* a flush discarded for its duration alone and one discarded for its size alone
C1_Witness ==
    /\ \E f \in Flushes :
           /\ flushLog[f].time - flushLog[f].start < 500
           /\ flushLog[f].size >= 100
           /\ flushLog[f].outcome = "skipped"
    /\ \E f \in Flushes :
           /\ flushLog[f].time - flushLog[f].start >= 500
           /\ flushLog[f].size < 100
           /\ flushLog[f].outcome = "skipped"

RECURSIVE SumDelivered(_)
SumDelivered(n) == IF n = 0 THEN 0 ELSE calls[n].delivered + SumDelivered(n - 1)

\* C2 as stated: onTranscriptionUpdate runs exactly once for every segment whose
\* transcribe call completed successfully, whatever the text (the empty string
\* included), and never for a discarded or failed segment.
C2_DeliveredOncePerSuccess ==
    /\ \A c \in 1..Len(calls) :
           calls[c].delivered = IF calls[c].st = "resolved" THEN 1 ELSE 0
    /\ Len(transcriptions) = SumDelivered(Len(calls))

\* C2 amended: onTranscriptionUpdate runs exactly once for every segment whose
\* transcribe call completed successfully with a text that is not empty after
\* trimming, and never for a discarded segment, a failed call or a call whose
\* text is empty or whitespace only.
C2_DeliveredOncePerNonBlankSuccess ==
    /\ \A c \in 1..Len(calls) :
           calls[c].delivered =
               IF calls[c].st = "resolved" /\ Trim(calls[c].result.text) # <<>>
               THEN 1 ELSE 0
    /\ Len(transcriptions) = SumDelivered(Len(calls))
    /\ \A f \in Flushes : flushLog[f].outcome = "skipped" => CallsOf(f) = {}

\* one success delivered, one success with a whitespace-only text not delivered
C2_Witness ==
    /\ \E c \in 1..Len(calls) : calls[c].st = "resolved" /\ calls[c].delivered = 1
    /\ \E c \in 1..Len(calls) :
           /\ calls[c].st = "resolved"
           /\ calls[c].result.text # <<>>
           /\ calls[c].delivered = 0

FragIds(c) == {calls[c].seg.blob.frags[k].id : k \in 1..Len(calls[c].seg.blob.frags)}

\* C3: a transcribe call that rejects while the recorder is Recording surfaces
\* its error message and changes nothing else of the recorder: it stays
\* Recording, the chunk timer stays set, the fragment buffer, the stream and the
\* underlying recorder are untouched, no call is made for the failed segment
\* again, and no two calls ever carry the same fragment.
C3_RejectionLeavesRecorderRunning ==
    /\ [][\A i \in 1..Len(calls) :
            (calls[i].st = "pending" /\ calls'[i].st = "rejected" /\ isRecording)
                => /\ error' = calls'[i].err
                   /\ error' # NoError
                   /\ isRecording'
                   /\ Len(calls') = Len(calls)
                   /\ UNCHANGED <<chunkTimerRef, intervals, chunksRef, streamRef,
                                  streams, mediaRecorderRef, recorders,
                                  lastChunkTimeRef, chunkCountRef>>]_vars
    /\ [](\A i, j \in 1..Len(calls) : i # j => FragIds(i) \cap FragIds(j) = {})

\* a call failed while Recording, and a later timer tick submitted a later segment
C3_Witness ==
    \E i, j \in 1..Len(calls) :
        /\ calls[i].st = "rejected"
        /\ calls[i].rec
        /\ error = calls[i].err
        /\ j > i
        /\ flushLog[calls[j].flush].kind = "tick"
        /\ flushLog[calls[j].flush].time >= calls[i].at
        /\ calls[i].at > 0

\* C4: a stopped recording session gets exactly one final flush attempt, made
\* 1000 ms after the stop request, and an attempt that finds the buffer empty
\* makes no transcribe call; whatever the clicks on the start/stop button.
C4_OneFinalFlushPerStop ==
    /\ finalAttempts <= 1
    /\ \A f \in 1..Len(flushLog) :
           flushLog[f].kind = "final"
               => /\ flushLog[f].time = flushLog[f].stopAt + 1000
                  /\ flushLog[f].outcome = "empty" => CallsOf(f) = {}

\* C6: a successful transcribe call, remote or mock, returns the startTime and
\* endTime of the segment it was given, and the result handed to
\* onTranscriptionUpdate (and kept in the page's list) carries the same two.
C6_TimestampsPreserved ==
    /\ \A c \in 1..Len(calls) :
           /\ calls[c].st = "resolved"
                  => /\ calls[c].result.startTime = calls[c].seg.startTime
                     /\ calls[c].result.endTime = calls[c].seg.endTime
                     /\ calls[c].seg.startTime = flushLog[calls[c].flush].start
                     /\ calls[c].seg.endTime = flushLog[calls[c].flush].time
           /\ calls[c].delivered > 0
                  => /\ calls[c].handed.startTime = calls[c].seg.startTime
                     /\ calls[c].handed.endTime = calls[c].seg.endTime
                     /\ \E k \in 1..Len(transcriptions) :
                            transcriptions[k] = calls[c].handed

\* a result delivered after the clock has moved past the segment's end
C6_Witness ==
    \E c \in 1..Len(calls) :
        /\ calls[c].delivered = 1
        /\ calls[c].seg.endTime > calls[c].seg.startTime
        /\ calls[c].at > calls[c].seg.endTime

\* C7: when getUserMedia rejects, startRecording only reports the error: it
\* leaves isRecording as it was (false when the recorder was Idle), acquires no
\* stream, creates and starts no MediaRecorder and sets no chunk timer.
C7_MicrophoneDeniedStaysIdle ==
    [][\A i \in 1..Len(starts) :
            GetUserMediaReject(i)
                => /\ isRecording' = isRecording
                   /\ error'.kind = "Could not access microphone"
                   /\ streams = <<>> => streamRef' = 0 /\ audioStream' = 0
                   /\ UNCHANGED <<streamRef, audioStream, streams, recorders,
                                  mediaRecorderRef, intervals, chunkTimerRef,
                                  timerSeq>>]_vars

\* the only start attempt was denied
C7_Witness ==
    /\ error = MicError("denied")
    /\ ~isRecording
    /\ clicks = 1
    /\ starts = <<>>
    /\ streamRef = 0
    /\ streams = <<>>
    /\ recorders = <<>>
    /\ intervals = {}

\* C8: the factories select the mock variant when mock mode is asked for,
\* whatever the credential; the mock variant when it is not and the credential
\* is empty; and otherwise the remote variant holding exactly that credential.
\* For getTranscriptionService the two inputs are the configured credential
\* (empty when not configured) and whether the mock setting is "true".
C8_Selected(apiKey, useMock, service) ==
    /\ useMock => service = [kind |-> "mock", apiKey |-> ""]
    /\ ~useMock /\ apiKey = "" => service = [kind |-> "mock", apiKey |-> ""]
    /\ ~useMock /\ apiKey # "" => service = [kind |-> "whisper", apiKey |-> apiKey]

C8_FactorySelection ==
    /\ created.how = "create"
           => C8_Selected(created.apiKey, created.useMock, created.service)
    /\ created.how = "get"
           => C8_Selected(IF env.key.set THEN env.key.val ELSE "",
                          env.mock.set /\ env.mock.val = "true",
                          created.service)

\* the remote variant was selected, with the credential given
C8_Witness ==
    /\ created.how = "get"
    /\ env.key = [set |-> TRUE, val |-> "X"]
    /\ env.mock = [set |-> TRUE, val |-> "false"]
    /\ created.service = [kind |-> "whisper", apiKey |-> "X"]

\* C10: WhisperTranscriptionService.transcribe resolves only for a non-empty
\* payload answered with a success status; an empty payload is rejected with
\* the empty-audio error and no HTTP request is made for it; a non-success
\* status is rejected with an error carrying that status and the body text.
C10_WhisperOutcomes ==
    \A c \in 1..Len(calls) :
        calls[c].svc.kind = "whisper" =>
            /\ calls[c].st = "resolved"
                   => /\ calls[c].seg.blob.size > 0
                      /\ calls[c].resp.kind = "http"
                      /\ calls[c].resp.status \in 200..299
            /\ calls[c].seg.blob.size = 0
                   => /\ calls[c].st = "rejected"
                      /\ calls[c].err.kind = "Empty audio blob"
                      /\ ~calls[c].http
                      /\ calls[c].resp = NoResponse
            /\ (calls[c].resp.kind = "http" /\ calls[c].resp.status \notin 200..299)
                   => /\ calls[c].st = "rejected"
                      /\ calls[c].err.kind = "Transcription failed"
                      /\ calls[c].err.status = calls[c].resp.status
                      /\ calls[c].err.body = calls[c].resp.body

\* a non-empty payload was answered 300 and the call failed with that status
C10_Witness ==
    \E c \in 1..Len(calls) :
        /\ calls[c].svc.kind = "whisper"
        /\ calls[c].seg.blob.size > 0
        /\ calls[c].resp.status = 300
        /\ calls[c].st = "rejected"

\* the calls of the detector's log that belong to the silence span call k ends:
\* RunStart(k) is the first of the consecutive below-threshold samples up to k
\* (a reset starts the detector's view of the span anew)
Silent(k) == sdLog[k].op = "sample" /\ sdLog[k].volume < detector.silenceThreshold

RECURSIVE RunStart(_)
RunStart(k) == IF k > 1 /\ Silent(k - 1) THEN RunStart(k - 1) ELSE k

SilenceSoFar(k) == sdLog[k].t - sdLog[RunStart(k)].t

\* C9 as stated, for every threshold T and minimum length L: a call made with
\* the volume below T returns true exactly when the silence has lasted L ms or
\* more (so the first such call returns true and every earlier one false), and
\* the call made when the volume has risen to T or above returns false.
C9_SilenceReportedAtMinLength ==
    \A k \in 1..Len(sdLog) :
        /\ Silent(k) => (sdLog[k].ret <=> SilenceSoFar(k) >= detector.minSilenceLength)
        /\ (sdLog[k].op = "sample" /\ ~Silent(k)) => ~sdLog[k].ret

\* C9 amended: the same for every minimum length L > 0; for L <= 0 the first
\* below-threshold call of a silence span still returns false, and every later
\* call of the span returns true.
C9_SilenceReportedAtPositiveMinLength ==
    \A k \in 1..Len(sdLog) :
        /\ (Silent(k) /\ detector.minSilenceLength > 0)
               => (sdLog[k].ret <=> SilenceSoFar(k) >= detector.minSilenceLength)
        /\ (Silent(k) /\ detector.minSilenceLength <= 0)
               => (sdLog[k].ret <=> RunStart(k) # k)
        /\ (sdLog[k].op = "sample" /\ ~Silent(k)) => ~sdLog[k].ret

\* silence of exactly L = 1000 ms: false, false, true, then false on the rise
C9_Witness ==
    /\ detector.minSilenceLength = 1000
    /\ Len(sdLog) = 4
    /\ Silent(1) /\ Silent(2) /\ Silent(3) /\ ~Silent(4)
    /\ sdLog[4].op = "sample"
    /\ SilenceSoFar(3) = 1000
    /\ ~sdLog[1].ret /\ ~sdLog[2].ret /\ sdLog[3].ret /\ ~sdLog[4].ret

\* the segment a flush cut, as [startTime, endTime]
Bounds(f) == <<f.start, f.time>>

FlushAt(k, t) == k \in 1..Len(flushLog) /\ flushLog[k].time = t

\* what the scenario says of the two periodic flushes
C5_PeriodicSegments ==
    \A k \in 1..Len(flushLog) :
        LET f == flushLog[k]
        IN  /\ (f.kind = "tick" /\ f.time = DefaultChunkInterval)
                   => Bounds(f) = <<0, DefaultChunkInterval>>
            /\ (f.kind = "tick" /\ f.time = 2 * DefaultChunkInterval
                    /\ FlushAt(k - 1, DefaultChunkInterval))
                   => Bounds(f) = <<DefaultChunkInterval, 2 * DefaultChunkInterval>>
            /\ f.outcome = "submitted"
                   => /\ calls[f.call].seg.startTime = f.start
                      /\ calls[f.call].seg.endTime = f.time
            /\ f.outcome # "submitted" => f.call = 0 /\ CallsOf(k) = {}

\* C5 as stated: recording from t = 0 with a 6000 ms interval, the flush at
\* 6000 cuts [0,6000], the flush at 12000 cuts [6000,12000], and the stop at
\* 13000 cuts a final segment [12000,13000] when fragments are buffered and
\* makes no transcribe call otherwise.
C5_ScenarioFinalEndsAtStop ==
    /\ C5_PeriodicSegments
    /\ \A k \in 1..Len(flushLog) :
        LET f == flushLog[k]
        IN  (f.kind = "final" /\ f.outcome # "empty"
                /\ FlushAt(k - 1, 2 * DefaultChunkInterval))
               => Bounds(f) = <<2 * DefaultChunkInterval, f.stopAt>>

\* C5 amended: the final flush runs when the settling delay has passed, so
\* the stop at 13000 cuts [12000,14000]; that segment is submitted when it
\* holds 100 bytes or more and discarded without a call when it holds less.
C5_ScenarioFinalEndsAfterSettling ==
    /\ C5_PeriodicSegments
    /\ \A k \in 1..Len(flushLog) :
        LET f == flushLog[k]
        IN  /\ f.kind = "final" => f.stopAt \in ScenarioStops
            /\ (f.kind = "final" /\ f.outcome # "empty"
                    /\ FlushAt(k - 1, 2 * DefaultChunkInterval))
                   => /\ Bounds(f) = <<2 * DefaultChunkInterval, f.stopAt + SettleDelay>>
                      /\ f.outcome = "submitted" <=> f.size >= MinBlobBytes

\* the three flushes of the scenario, the final one submitted
C5_Witness ==
    /\ Len(flushLog) = 3
    /\ flushLog[1].kind = "tick" /\ Bounds(flushLog[1]) = <<0, 6000>>
    /\ flushLog[2].kind = "tick" /\ Bounds(flushLog[2]) = <<6000, 12000>>
    /\ flushLog[3].kind = "final" /\ flushLog[3].stopAt = 13000
    /\ flushLog[3].outcome = "submitted"
    /\ calls[flushLog[3].call].seg.endTime = 14000

\* C11: the page's list of transcriptions only grows at its end, a step that
\* delivers a result appends exactly that result and no other step changes the
\* list (so the list is in the order the calls completed, across stop and a
\* later start as well); two overlapping calls that complete in the reverse of
\* their segment order leave the later segment's result first.
C11_ListAppendOnlyInCompletionOrder ==
    [][/\ Len(transcriptions') >= Len(transcriptions)
       /\ SubSeq(transcriptions', 1, Len(transcriptions)) = transcriptions
       /\ \A i \in 1..Len(calls) :
              calls'[i].delivered > calls[i].delivered
                  => transcriptions' = Append(transcriptions, calls'[i].handed)
       /\ (\A i \in 1..Len(calls) : calls'[i].delivered = calls[i].delivered)
              => transcriptions' = transcriptions]_vars

\* two calls in flight together, answered in reverse: the later segment is first
C11_Witness ==
    \E i, j \in 1..Len(calls) : \E p, q \in 1..Len(transcriptions) :
        /\ i < j
        /\ calls[i].seg.endTime <= calls[j].seg.startTime
        /\ calls[i].delivered = 1 /\ calls[j].delivered = 1
        /\ p < q
        /\ transcriptions[p] = calls[j].handed
        /\ transcriptions[q] = calls[i].handed
        /\ calls[i].handed # calls[j].handed

MockCall(i) == i \in 1..Len(calls) /\ calls[i].svc.kind = "mock"

\* C12: a call of MockTranscriptionService.transcribe is never rejected; it is
\* not resolved before 500 ms have passed since the call, and (within the
\* horizon of the clock) it is eventually resolved, with a result.
C12_MockResolvesAfterDelay ==
    /\ [](\A i \in 1..Len(calls) :
            MockCall(i) =>
                /\ calls[i].st # "rejected"
                /\ calls[i].st = "pending" => now <= calls[i].called + 500
                /\ calls[i].st = "resolved"
                       => /\ calls[i].at = calls[i].called + 500
                          /\ calls[i].err = NoError
                          /\ calls[i].result.text # <<>>)
    /\ \A i \in 1..MaxDirect :
           (MockCall(i) /\ calls[i].called + 500 <= MaxTime)
               ~> (MockCall(i) /\ calls[i].st = "resolved")

\* a mock call made after the clock had moved, resolved 500 ms later
C12_Witness ==
    \E i \in 1..Len(calls) :
        /\ MockCall(i)
        /\ calls[i].called > 0
        /\ calls[i].st = "resolved"
        /\ calls[i].at = calls[i].called + 500

\* the flushes of the current session that found fragments, in order
SessionFlushes ==
    {k \in (session.flushes + 1)..Len(flushLog) : flushLog[k].outcome # "empty"}

PrevFlushes(k) == {p \in SessionFlushes : p < k}

Last(S) == CHOOSE x \in S : \A y \in S : y <= x

\* C13: within a recording session the segment a flush builds starts at the
\* time of the previous flush that found fragments (submitted or discarded), or
\* at the recording start for the first one, and ends at the time of the flush;
\* so no segment ends before it starts and consecutive segments meet exactly.
C13_SegmentsTileTheSession ==
    \A k \in SessionFlushes :
        LET f == flushLog[k]
        IN  /\ f.start = IF PrevFlushes(k) = {} THEN session.since
                         ELSE flushLog[Last(PrevFlushes(k))].time
            /\ f.time >= f.start
            /\ f.outcome = "submitted"
                   => /\ calls[f.call].seg.startTime = f.start
                      /\ calls[f.call].seg.endTime = f.time

\* a discarded flush followed by a submitted one that starts where it ended
C13_Witness ==
    \E k, l \in SessionFlushes :
        /\ PrevFlushes(l) # {}
        /\ Last(PrevFlushes(l)) = k
        /\ flushLog[k].outcome = "skipped"
        /\ flushLog[l].outcome = "submitted"
        /\ flushLog[l].start = flushLog[k].time
        /\ flushLog[k].time > flushLog[k].start

RECURSIVE Snapshots(_, _)
Snapshots(from, to) ==
    IF from > to THEN <<>> ELSE flushLog[from].frags \o Snapshots(from + 1, to)

Ids(frags) == [k \in 1..Len(frags) |-> frags[k].id]

\* C14: in a recording session the fragments that arrived since the start are
\* the flush snapshots taken so far, one after the other, followed by the
\* buffer: each fragment once, in arrival order, none lost between flushes.
C14_FragmentsPartitioned ==
    Ids(Snapshots(session.flushes + 1, Len(flushLog)) \o chunksRef)
        = [k \in 1..(fragCount - session.frags) |-> session.frags + k]

\* a fragment that arrived while the first segment's call was in flight is in
\* the second snapshot
C14_Witness ==
    \E k, l \in SessionFlushes : \E c \in 1..Len(calls) :
        /\ k < l
        /\ flushLog[k].call = c
        /\ calls[c].st # "pending"
        /\ calls[c].at > flushLog[k].time
        /\ flushLog[l].frags # <<>>
        /\ flushLog[l].time <= calls[c].at
        /\ flushLog[l].time > flushLog[k].time

\* C15: the '[Chunk #n]' appended to a delivered text carries the number of
\* the flush that cut the delivered segment (the chunk counter at that flush),
\* whatever happened while the call was in flight.
C15_TagIsFlushNumber ==
    \A c \in 1..Len(calls) :
        calls[c].delivered > 0
            => calls[c].handed.text
                   = calls[c].result.text \o ChunkTag(flushLog[calls[c].flush].n)

InFlight == {c \in 1..Len(calls) : calls[c].st = "pending"}

\* C16: a timer tick starts a flush exactly when the buffer holds a fragment,
\* however many calls are in flight; a tick that finds the buffer empty leaves
\* the last-flush time, the chunk counter, the in-flight counter, the error
\* and the recording flag as they were, and makes no call.
C16_TickFlushesIffBuffered ==
    [][\A t \in intervals :
          TimerTick(t) =>
              /\ chunksRef # <<>>
                     => /\ Len(flushLog') = Len(flushLog) + 1
                        /\ flushLog'[Len(flushLog')].kind = "tick"
                        /\ flushLog'[Len(flushLog')].frags = chunksRef
                        /\ chunkCountRef' = chunkCountRef + 1
                        /\ lastChunkTimeRef' = now
                        /\ chunksRef' = <<>>
              /\ chunksRef = <<>>
                     => UNCHANGED <<flushLog, calls, lastChunkTimeRef, chunkCountRef,
                                    pendingChunks, error, isRecording, chunksRef>>]_vars

\* a tick flushed and submitted a segment while an earlier call was in flight
C16_Witness ==
    \E c \in InFlight : \E l \in 1..Len(flushLog) :
        /\ flushLog[l].kind = "tick"
        /\ flushLog[l].outcome = "submitted"
        /\ flushLog[l].call > c
        /\ flushLog[l].time > calls[c].called

\* C17: the in-flight counter equals the number of transcribe calls started
\* and not yet completed, in every state; so a discarded flush leaves it as it
\* was, and it is 0 exactly when no call is in flight.
C17_PendingCountsInFlight ==
    pendingChunks = Cardinality(InFlight)

\* C18: from a stop request until a later start succeeds (the recorder holds
\* no timer handle in between) no timer tick flushes: the only flush in that
\* time is the final one, also when a second start was requested while the
\* first was waiting for the microphone.
C18_NoTickFlushAfterStop ==
    [][(chunkTimerRef = 0 /\ Len(flushLog') > Len(flushLog))
           => flushLog'[Len(flushLog')].kind = "final"]_vars

StopPending == \E t \in timeouts : t.due <= MaxTime

\* C19: a stop request made while Recording cancels the interval timer and
\* releases the microphone tracks at once, before the settling delay begins
\* (no interval timer is left and no stream is live when the delay starts);
\* the recorder leaves Recording only in the step that makes the final flush
\* attempt; and (within the horizon of the clock) it does become Idle, whether
\* or not any transcription ever completes.
C19_StopLeadsToIdle ==
    /\ [][ClickStop =>
              /\ chunkTimerRef' = 0
              /\ intervals' = {}
              /\ streamRef' = 0
              /\ \A s \in 1..Len(streams) : streams'[s] = "stopped"
              /\ isRecording'
              /\ \E t \in timeouts' \ timeouts : t.due = now + SettleDelay]_vars
    /\ [][(isRecording /\ ~isRecording')
              => /\ \E t \in timeouts : t.due <= now /\ timeouts' = timeouts \ {t}
                 /\ Len(flushLog') = Len(flushLog) + 1
                 /\ flushLog'[Len(flushLog')].kind = "final"]_vars
    /\ (isRecording /\ StopPending) ~> ~isRecording

\* stop was requested while call i was in flight
StoppedSince(i) ==
    \/ \E t \in timeouts : t.at >= calls[i].called
    \/ \E f \in 1..Len(flushLog) :
           /\ flushLog[f].kind = "final"
           /\ flushLog[f].stopAt >= calls[i].called

C20_FailureSurfacedAfterIdle ==
    \E i \in 1..Len(calls) : \E f \in 1..Len(flushLog) :
        /\ flushLog[f].kind = "final"
        /\ calls[i].flush < f
        /\ calls[i].called <= flushLog[f].stopAt
        /\ calls[i].at >= flushLog[f].time
        /\ ~calls[i].rec
        /\ calls[i].st = "rejected"
        /\ error = calls[i].err

\* entry k of the log ends the silence span: a sample at or above the
\* threshold, or a reset()
EndsSilence(k) == sdLog[k].op = "reset" \/ ~Silent(k)

\* C21: after a call that returned true, the next call with a volume below the
\* threshold and a time that is not earlier returns true again; the first
\* below-threshold call after a sample at or above the threshold or after a
\* reset() (and the first call of all) returns false and makes its own time
\* the start of the silence span; and true is only returned when the minimum
\* length has elapsed since the start of the current span.
C21_TrueUntilSoundOrReset ==
    /\ \A k \in 2..Len(sdLog) :
           (sdLog[k - 1].ret /\ Silent(k) /\ sdLog[k].t >= sdLog[k - 1].t)
               => sdLog[k].ret
    /\ \A k \in 1..Len(sdLog) :
           /\ (Silent(k) /\ (k = 1 \/ EndsSilence(k - 1))) => ~sdLog[k].ret
           /\ (Silent(k) /\ sdLog[k].ret)
                  => SilenceSoFar(k) >= detector.minSilenceLength
    /\ (sdLog # <<>> /\ Silent(Len(sdLog)))
           => /\ detector.isSilent
              /\ detector.silenceStartTime = sdLog[RunStart(Len(sdLog))].t

\* true, true again, a reset, and the next silent sample starts a new span
C21_Witness ==
    /\ detector.minSilenceLength = 500
    /\ Len(sdLog) = 5
    /\ Silent(1) /\ Silent(2) /\ Silent(3) /\ Silent(5)
    /\ sdLog[4].op = "reset"
    /\ ~sdLog[1].ret /\ sdLog[2].ret /\ sdLog[3].ret /\ ~sdLog[5].ret
    /\ detector.silenceStartTime = sdLog[5].t
    /\ sdLog[5].t > sdLog[3].t

\* C22: when the component is removed while Recording, the cleanup stops the
\* recording: the interval timer the recorder holds is cancelled, the tracks
\* of the stream it holds are released and the settling timeout is set; and
\* after the removal nothing is flushed but by that final flush.
C22_UnmountStopsRecording ==
    /\ [][(mounted /\ ~mounted' /\ isRecording)
              => /\ chunkTimerRef' = 0
                 /\ \A t \in intervals' : t.id # chunkTimerRef
                 /\ streamRef' = 0
                 /\ streamRef # 0 => streams'[streamRef] = "stopped"
                 /\ \E t \in timeouts' \ timeouts : t.due = now + SettleDelay]_vars
    /\ [][(~mounted /\ Len(flushLog') > Len(flushLog))
              => flushLog'[Len(flushLog')].kind = "final"]_vars

LiveStreams == {s \in 1..Len(streams) : streams[s] = "live"}

RecordingRecorders == {r \in 1..Len(recorders) : recorders[r].state = "recording"}

\* C23: at most one interval timer is set, at most one stream is live and at
\* most one MediaRecorder is recording, and a timer that is set is the one
\* chunkTimerRef holds.
C23_OneTimerOneStream ==
    /\ Cardinality(intervals) <= 1
    /\ Cardinality(LiveStreams) <= 1
    /\ Cardinality(RecordingRecorders) <= 1
    /\ \A t \in intervals : t.id = chunkTimerRef

\* C24: while a transcribe call is in flight the isTranscribing indicator is
\* set, so an Idle recorder with a call in flight has its Start control
\* disabled (disabled = isTranscribing && !isRecording).
C24_TranscribingWhileInFlight ==
    InFlight # {} => isTranscribing

\* no startRecording is waiting for the microphone and no stopRecording is
\* waiting for its settling delay
Settled_Idle == ~isRecording /\ starts = <<>> /\ timeouts = {}

\* C25: an Idle recorder with no start or stop in progress holds no live
\* stream, no MediaRecorder of it is recording and no interval timer is set.
C25_IdleHoldsNothing ==
    Settled_Idle => /\ LiveStreams = {}
                    /\ RecordingRecorders = {}
                    /\ intervals = {}

====
